---- MODULE Spec2Model ----
(***************************************************************************)
(* A model of src/src/components/MoonVisibility.tsx: the pure function     *)
(* calculateMoonData (specification CalcSpec), the helpers getTimeRemaining,*)
(* getMoonPhaseDescription and getAzimuthDirection (HelperSpec), the       *)
(* MoonVisibility component's refresh state machine (Spec, FairSpec) and   *)
(* its dialogs and device-orientation effect (OrientSpec).                 *)
(*                                                                         *)
(* Representation.  A value of type T | null is a sequence of length at    *)
(* most one: <<>> is null, <<x>> is x.  Latitudes and longitudes are whole *)
(* degrees.  Timestamps are integers (one unit is one tick of the clock).  *)
(* An angle returned by the ephemeris provider (radians) is an integer k   *)
(* standing for k * pi / RadDen radians.                                   *)
(***************************************************************************)
EXTENDS Integers, Sequences, FiniteSets, TLC

VARIABLES
    \* calculateMoonData as a pure function (CalcSpec)
    input,      \* the arguments and the environment of one call, or null
    result,     \* what that call returned, or null before the call
    \* the MoonVisibility component (Spec): its React state
    moonData, location, loading, error, isCurrentLocation, selectedCity,
    \* the component's environment and control state
    mounted,        \* the mount effects have run
    geoSupported,   \* navigator.geolocation exists
    pending,        \* the attempts awaiting getCurrentLocation()
    run,            \* the attempt whose synchronous code is executing, or null
    started,        \* the number of computation attempts started so far
    geoCalls,       \* the number of calls of getCurrentLocation() so far
    timers,         \* the number of active setInterval timers
    unmounted,      \* the component has been unmounted
    \* history, not program state
    moonDataOf,     \* the attempt and the coordinate moonData was computed for
    lastDone,       \* the attempt that completed last, and its outcome
    overlapped,     \* some attempt started while another was in flight
    lastTrigger,    \* what started the latest attempt
    \* the compass (OrientSpec): React state
    openDialog, deviceHeading, orientationEnabled,
    \* the compass: its environment and control state
    iosPermission,  \* DeviceOrientationEvent.requestPermission is a function
    toggles,        \* the number of clicks on the compass button so far
    handler,        \* the handleOrientation of the effect's latest run, or null
    permPending,    \* the handlers whose requestPermission() is not settled
    listeners       \* the registrations (event type, handler) on window

calcVars == <<input, result>>
stateVars == <<moonData, location, loading, error, isCurrentLocation, selectedCity>>
ctlVars == <<mounted, geoSupported, pending, run, started, geoCalls, timers, unmounted>>
histVars == <<moonDataOf, lastDone, overlapped, lastTrigger>>
compVars == <<stateVars, ctlVars, histVars>>
orientVars ==
    <<openDialog, deviceHeading, orientationEnabled, iosPermission, toggles, handler,
      permPending, listeners>>
vars == <<calcVars, compVars, orientVars>>

\* ------------------------------------------------------------------ bounds
\* Resolution of the angle grid: pi radians is RadDen units.
RadDen == 4
\* Query times range over -1 .. MaxNow.
MaxNow == 3
\* Length of a calendar day in clock units.
DayLen == 2
\* The component starts at most MaxAttempts computation attempts.
MaxAttempts == 4

\* The search horizon of calculateMoonData: for (let i = 1; i <= 7; i++).
Horizon == 7

\* The compass button is clicked at most MaxToggles times.
MaxToggles == 3

\* Calls of getTimeRemaining are made with targets up to MaxHours whole hours
\* (and a few minutes) away from the current time.
MaxHours == 2

\* Milliseconds: 1000 * 60 * 60 and 1000 * 60.
MsPerHour == 3600000
MsPerMinute == 60000

None == <<>>
Some(x) == <<x>>

Days == 0..Horizon

\* ------------------------------------------------------- ephemeris provider
\* The timestamp of the rise or set event of calendar day d, when that day
\* has one: SunCalc.getMoonTimes(date) reports the events of the day of date.
EventAt(d) == d * DayLen

\* A table of getMoonTimes results, one entry per queried day: the days in
\* has have an event, the others have none.
TimesTable(has) == [d \in Days |-> IF d \in has THEN Some(EventAt(d)) ELSE None]

\* ------------------------------------------------------- calculateMoonData
\* lat < -90 || lat > 90 || lng < -180 || lng > 180
\* (InvalidCoordinates_Exclusive: the variant that rejects the bounds too)
InvalidCoordinates_Exclusive(lat, lng) ==
    lat <= -90 \/ lat >= 90 \/ lng <= -180 \/ lng >= 180
InvalidCoordinates(lat, lng) == lat < -90 \/ lat > 90 \/ lng < -180 \/ lng > 180

\* !nextRise || nextRise.getTime() < now.getTime()
NeedsSearch(today, now) == today = None \/ today[1] < now

\* futureTimes.rise && futureTimes.rise.getTime() > now.getTime()
Accepts(t, now) == t # None /\ t[1] > now

\* The for loop from day i on: the days it queries, in order, and the event
\* it assigns (None when it runs to the end without assigning).
RECURSIVE SearchFrom(_, _, _)
SearchFrom(tab, now, i) ==
    IF i > Horizon THEN [queried |-> <<>>, found |-> None]
    ELSE IF Accepts(tab[i], now) THEN [queried |-> <<i>>, found |-> tab[i]]
    ELSE LET rest == SearchFrom(tab, now, i + 1)
         IN  [queried |-> <<i>> \o rest.queried, found |-> rest.found]

\* let nextRise = moonTimes.rise; if (...) { for ... { nextRise = ...; break } }
\* (NextEvent_LastDay: the variant whose loop has no break)
NextEvent_LastDay(tab, now) ==
    IF NeedsSearch(tab[0], now)
    THEN LET hits == {i \in 1..Horizon : Accepts(tab[i], now)}
         IN  [queried |-> [i \in 1..Horizon |-> i],
              value |-> IF hits = {} THEN tab[0]
                        ELSE tab[CHOOSE i \in hits : \A j \in hits : j <= i]]
    ELSE [queried |-> <<>>, value |-> tab[0]]
NextEvent(tab, now) ==
    IF NeedsSearch(tab[0], now)
    THEN LET s == SearchFrom(tab, now, 1)
         IN  [queried |-> s.queried,
              value |-> IF s.found # None THEN s.found ELSE tab[0]]
    ELSE [queried |-> <<>>, value |-> tab[0]]

\* moonPosition.altitude * (180 / Math.PI)
RadToDeg(k) == k * (180 \div RadDen)

\* JavaScript's %: the remainder takes the sign of the dividend.
JsRem(a, b) == IF a >= 0 THEN a % b ELSE 0 - ((0 - a) % b)

\* (azimuthDegrees + 180) % 360
\* (NormalizeAzimuth_NoShift: the variant that keeps the south reference)
NormalizeAzimuth_NoShift(azDeg) == JsRem(azDeg, 360)
NormalizeAzimuth(azDeg) == JsRem(azDeg + 180, 360)

\* altitudeDegrees > 0
\* (IsVisible_Inclusive: the variant that counts the horizon as visible)
IsVisible_Inclusive(altDeg) == altDeg >= 0
IsVisible(altDeg) == altDeg > 0

\* calculateMoonData(lat, lng) at time now, with eph the answers of SunCalc:
\* eph.altitude, eph.azimuth (getMoonPosition), eph.rise, eph.set (getMoonTimes
\* per day).  threw: the function threw 'Invalid coordinates'; calls: the
\* number of SunCalc calls made; riseQueried, setQueried: the days the two
\* loops queried.
\* (CalculateMoonData_SharedSearch: the variant whose second loop reads
\* futureTimes.rise)
CalculateMoonData_SharedSearch(lat, lng, now, eph) ==
    IF InvalidCoordinates(lat, lng)
    THEN [threw |-> TRUE, calls |-> 0, riseQueried |-> <<>>, setQueried |-> <<>>,
          data |-> None]
    ELSE LET nextRise == NextEvent(eph.rise, now)
             nextSet == NextEvent([d \in Days |-> IF d = 0 THEN eph.set[0]
                                                  ELSE eph.rise[d]], now)
             altitudeDegrees == RadToDeg(eph.altitude)
             azimuthDegrees == RadToDeg(eph.azimuth)
         IN  [threw |-> FALSE,
              calls |-> 3 + Len(nextRise.queried) + Len(nextSet.queried),
              riseQueried |-> nextRise.queried,
              setQueried |-> nextSet.queried,
              data |-> Some([isVisible |-> IsVisible(altitudeDegrees),
                             altitude |-> altitudeDegrees,
                             azimuth |-> NormalizeAzimuth(azimuthDegrees),
                             rise |-> nextRise.value,
                             set |-> nextSet.value])]
CalculateMoonData(lat, lng, now, eph) ==
    IF InvalidCoordinates(lat, lng)
    THEN [threw |-> TRUE, calls |-> 0, riseQueried |-> <<>>, setQueried |-> <<>>,
          data |-> None]
    ELSE LET nextRise == NextEvent(eph.rise, now)
             nextSet == NextEvent(eph.set, now)
             altitudeDegrees == RadToDeg(eph.altitude)
             azimuthDegrees == RadToDeg(eph.azimuth)
         IN  [threw |-> FALSE,
              calls |-> 3 + Len(nextRise.queried) + Len(nextSet.queried),
              riseQueried |-> nextRise.queried,
              setQueried |-> nextSet.queried,
              data |-> Some([isVisible |-> IsVisible(altitudeDegrees),
                             altitude |-> altitudeDegrees,
                             azimuth |-> NormalizeAzimuth(azimuthDegrees),
                             rise |-> nextRise.value,
                             set |-> nextSet.value])]

\* ------------------------------------------------------------ the helpers
\* getTimeRemaining(targetDate) called at time now (milliseconds); target is
\* the target's getTime(), or null.
\* (GetTimeRemaining_PastInclusive: the variant with diffMs <= 0)
GetTimeRemaining_PastInclusive(target, now) ==
    IF target = None THEN None
    ELSE LET diffMs == target[1] - now
         IN  IF diffMs <= 0 THEN None
             ELSE Some([hours |-> diffMs \div MsPerHour,
                        minutes |-> JsRem(diffMs, MsPerHour) \div MsPerMinute])
GetTimeRemaining(target, now) ==
    IF target = None THEN None
    ELSE LET diffMs == target[1] - now
         IN  IF diffMs < 0 THEN None
             ELSE Some([hours |-> diffMs \div MsPerHour,
                        minutes |-> JsRem(diffMs, MsPerHour) \div MsPerMinute])

\* getMoonPhaseDescription(phase); phase is in thousandths (30 is 0.03).
\* (GetMoonPhaseDescription_ClosedNewMoon: the variant with phase >= 0.97)
GetMoonPhaseDescription_ClosedNewMoon(phase) ==
    IF phase < 30 \/ phase >= 970 THEN "New Moon"
    ELSE IF phase < 220 THEN "Waxing Crescent"
    ELSE IF phase < 280 THEN "First Quarter"
    ELSE IF phase < 470 THEN "Waxing Gibbous"
    ELSE IF phase < 530 THEN "Full Moon"
    ELSE IF phase < 720 THEN "Waning Gibbous"
    ELSE IF phase < 780 THEN "Last Quarter"
    ELSE "Waning Crescent"
GetMoonPhaseDescription(phase) ==
    IF phase < 30 \/ phase > 970 THEN "New Moon"
    ELSE IF phase < 220 THEN "Waxing Crescent"
    ELSE IF phase < 280 THEN "First Quarter"
    ELSE IF phase < 470 THEN "Waxing Gibbous"
    ELSE IF phase < 530 THEN "Full Moon"
    ELSE IF phase < 720 THEN "Waning Gibbous"
    ELSE IF phase < 780 THEN "Last Quarter"
    ELSE "Waning Crescent"

\* Math.round(n / d) for d > 0: the nearest integer, a half rounded up.
MathRound(n, d) == (2 * n + d) \div (2 * d)

\* const directions = ['N', 'NNE', ...]
Directions ==
    <<"N", "NNE", "NE", "ENE", "E", "ESE", "SE", "SSE",
      "S", "SSW", "SW", "WSW", "W", "WNW", "NW", "NNW">>

\* directions[index]: undefined outside 0..15
DirectionAt(index) ==
    IF index \in 0..(Len(Directions) - 1) THEN Directions[index + 1] ELSE "undefined"

\* getAzimuthDirection(azimuth); azimuth is in quarters of a degree, so
\* azimuth / 22.5 is azimuth / 90.
\* (GetAzimuthDirection_NoWrap: the variant without % 16)
GetAzimuthDirection_NoWrap(azimuth) == DirectionAt(MathRound(azimuth, 90))
GetAzimuthDirection(azimuth) == DirectionAt(JsRem(MathRound(azimuth, 90), 16))

\* ------------------------------------------------------------ the component
\* MAJOR_CITIES: the 'current' entry and two of the presets, in whole degrees.
MAJOR_CITIES ==
    {[value |-> "current", name |-> "Current Location", latitude |-> 0, longitude |-> 0],
     [value |-> "london", name |-> "London, UK", latitude |-> 51, longitude |-> 0],
     [value |-> "tokyo", name |-> "Tokyo, Japan", latitude |-> 35, longitude |-> 139]}
CityValues == {c.value : c \in MAJOR_CITIES}
\* MAJOR_CITIES.find(c => c.value === value)
FindCity(value) == CHOOSE c \in MAJOR_CITIES : c.value = value

\* What the device and the reverse geocoder answer to one getCurrentPosition
\* call: the error callback, or a position (here one valid and one invalid
\* coordinate) followed by a reverse-geocoding fetch that succeeds or fails.
GeoAnswers ==
    {[kind |-> "error", latitude |-> 0, longitude |-> 0, geocoded |-> FALSE]}
    \cup
    {[kind |-> "position", latitude |-> c[1], longitude |-> c[2], geocoded |-> g] :
        c \in {<<48, 2>>, <<91, 0>>}, g \in BOOLEAN}

\* What SunCalc answers at the time of one of the component's computations:
\* the moon above or below the horizon, with a rise and a set on every day.
SkyNow ==
    {[altitude |-> a, azimuth |-> 0, rise |-> TimesTable(Days), set |-> TimesTable(Days)] :
        a \in {0 - 1, 1}}

\* getCurrentPosition's success callback: latitude < -90 || latitude > 90 || ...
InvalidPosition(latitude, longitude) ==
    latitude < -90 \/ latitude > 90 \/ longitude < -180 \/ longitude > 180

\* The settlement of the promise getCurrentLocation() returned, given the
\* answer ans of the device and the geocoder.
GetCurrentLocation(ans) ==
    IF ans.kind = "error"
    THEN [ok |-> FALSE, message |-> "Location error", value |-> None]
    ELSE IF InvalidPosition(ans.latitude, ans.longitude)
    THEN [ok |-> FALSE, message |-> "Invalid coordinates", value |-> None]
    ELSE [ok |-> TRUE, message |-> "",
          value |-> Some([latitude |-> ans.latitude, longitude |-> ans.longitude,
                          city |-> IF ans.geocoded THEN Some("city") ELSE None])]

\* What the component renders: the loading screen, the error card, the
\* observation, or nothing.
Display ==
    IF loading THEN <<"Loading">>
    ELSE IF error # None THEN <<"Failed", error[1]>>
    ELSE IF moonData # None THEN <<"Ready", moonData[1]>>
    ELSE <<"Blank">>

InFlight == pending \cup {run[i] : i \in 1..Len(run)}

\* useState(null), useState(null), useState(false): no dialog, no heading,
\* the compass off; nothing registered, nothing requested.
OrientationOff ==
    /\ openDialog = None /\ deviceHeading = None /\ orientationEnabled = FALSE
    /\ toggles = 0 /\ handler = None /\ permPending = {} /\ listeners = {}

Init ==
    /\ input = None /\ result = None
    /\ moonData = None /\ location = None /\ loading = TRUE /\ error = None
    /\ isCurrentLocation = TRUE /\ selectedCity = "current"
    /\ mounted = FALSE /\ geoSupported \in BOOLEAN
    /\ pending = {} /\ run = None /\ started = 0 /\ geoCalls = 0
    /\ moonDataOf = None /\ lastDone = None /\ overlapped = FALSE
    /\ timers = 0 /\ unmounted = FALSE /\ lastTrigger = "none"
    /\ OrientationOff /\ iosPermission \in BOOLEAN

\* The code of an attempt up to its first await: setLoading(true);
\* setError(null); then, for the attempt att, either the call of
\* getCurrentLocation() (needsGeo), which is awaited, or the rest of the
\* function in the same task.
BeginAttempt(att, needsGeo) ==
    /\ loading' = TRUE
    /\ error' = None
    /\ started' = started + 1
    /\ overlapped' = (overlapped \/ pending # {})
    /\ IF needsGeo /\ geoSupported
       THEN /\ pending' = pending \cup {att}
            /\ geoCalls' = geoCalls + 1
            /\ run' = None
       ELSE /\ run' = Some(att)
            /\ geoCalls' = IF needsGeo THEN geoCalls + 1 ELSE geoCalls
            /\ pending' = pending

\* updateMoonData up to its first await:
\* const locationData = location || await getCurrentLocation()
\* (UpdateMoonData_AlwaysResolve: the variant that ignores the cached location)
UpdateMoonData_AlwaysResolve ==
    /\ BeginAttempt([id |-> started + 1, kind |-> "update", value |-> "",
                     needsGeo |-> TRUE], TRUE)
    /\ UNCHANGED <<moonData, location, isCurrentLocation, selectedCity,
                   moonDataOf, lastDone, geoSupported, unmounted, calcVars, orientVars>>
UpdateMoonData ==
    /\ BeginAttempt([id |-> started + 1, kind |-> "update", value |-> "",
                     needsGeo |-> (location = None)], location = None)
    /\ UNCHANGED <<moonData, location, isCurrentLocation, selectedCity,
                   moonDataOf, lastDone, geoSupported, unmounted, calcVars, orientVars>>

\* const interval = setInterval(updateMoonData, 60000)
SetInterval(n) == n + 1

\* return () => clearInterval(interval)
\* (ClearInterval_Missing: the variant whose effect returns no cleanup)
ClearInterval_Missing(n) == n
ClearInterval(n) == IF n > 0 THEN n - 1 ELSE n

\* useEffect(() => { updateMoonData(); }, []) and the first run of the
\* interval effect.
Mount ==
    /\ ~mounted /\ ~unmounted
    /\ mounted' = TRUE
    /\ timers' = SetInterval(timers)
    /\ lastTrigger' = "mount"
    /\ UpdateMoonData

\* A handler runs only between tasks, and the model starts at most
\* MaxAttempts attempts.
CanStart == mounted /\ run = None /\ started < MaxAttempts

\* setInterval(updateMoonData, 60000).  The interval effect depends on
\* [location]: the timer is re-created, with the closure of the new render,
\* whenever location changes.  The commit of a state change and its effects are
\* taken as one step with the handler that made the change, so the closure
\* reads the current location.
\* (Tick_StopsOnError: the variant whose timer does nothing while an error
\* is set)
Tick_StopsOnError ==
    /\ timers > 0 /\ run = None /\ started < MaxAttempts
    /\ error = None
    /\ lastTrigger' = "tick"
    /\ UpdateMoonData
    /\ UNCHANGED <<mounted, timers>>
Tick ==
    /\ timers > 0 /\ run = None /\ started < MaxAttempts
    /\ lastTrigger' = "tick"
    /\ UpdateMoonData
    /\ UNCHANGED <<mounted, timers>>

\* The refresh button of the main card (rendered with the observation).
Refresh ==
    /\ CanStart /\ Display[1] = "Ready"
    /\ lastTrigger' = "refresh"
    /\ UpdateMoonData
    /\ UNCHANGED <<mounted, timers>>

\* The Try Again button of the error card.
TryAgain ==
    /\ CanStart /\ Display[1] = "Failed"
    /\ lastTrigger' = "retry"
    /\ UpdateMoonData
    /\ UNCHANGED <<mounted, timers>>

\* handleCityChange(value) up to its first await.  The Select is rendered
\* with the observation, when location.city is set.
\* (HandleCityChange_SelectOnly: the variant that only records the selection)
HandleCityChange_SelectOnly(value) ==
    /\ CanStart
    /\ Display[1] = "Ready"
    /\ location # None /\ location[1].city # None
    /\ selectedCity' = value
    /\ UNCHANGED <<moonData, location, loading, error, isCurrentLocation, ctlVars,
                   histVars, calcVars, orientVars>>
HandleCityChange(value) ==
    /\ CanStart
    /\ Display[1] = "Ready"
    /\ location # None /\ location[1].city # None
    /\ selectedCity' = value
    /\ lastTrigger' = "city"
    /\ BeginAttempt([id |-> started + 1, kind |-> "city", value |-> value,
                     needsGeo |-> (value = "current")], value = "current")
    /\ UNCHANGED <<moonData, location, isCurrentLocation, moonDataOf, lastDone,
                   mounted, geoSupported, timers, unmounted, calcVars, orientVars>>

\* finally { setLoading(false); }
\* (Finally_Missing: the variant without the finally block)
Finally_Missing == UNCHANGED loading
Finally == loading' = FALSE

\* The rest of an attempt att, from the settlement loc of its location to the
\* end of its finally block.  loc is what getCurrentLocation() settled with,
\* the cached location (updateMoonData) or the preset (handleCityChange).
FinishAttempt(att, loc, eph) ==
    IF ~loc.ok
    THEN \* catch: setError(err.message)
         /\ error' = Some(loc.message)
         /\ Finally
         /\ lastDone' = Some([id |-> att.id, ok |-> FALSE, message |-> loc.message,
                              data |-> None])
         /\ UNCHANGED <<moonData, location, isCurrentLocation, moonDataOf, timers>>
    ELSE LET l == loc.value[1]
             r == CalculateMoonData(l.latitude, l.longitude, 0, eph)
             \* setLocation is called (with a new object): handleCityChange
             \* always, updateMoonData when it had no location
             setsLocation == att.kind = "city" \/ att.needsGeo
         IN  /\ location' = IF setsLocation THEN loc.value ELSE location
             \* the interval effect depends on [location]: cleanup, then a
             \* new timer
             /\ timers' = IF setsLocation THEN SetInterval(ClearInterval(timers))
                          ELSE timers
             /\ isCurrentLocation' = IF att.kind = "city"
                                     THEN att.value = "current"
                                     ELSE isCurrentLocation
             /\ IF r.threw
                THEN /\ error' = Some("Invalid coordinates")
                     /\ UNCHANGED <<moonData, moonDataOf>>
                     /\ lastDone' = Some([id |-> att.id, ok |-> FALSE,
                                          message |-> "Invalid coordinates",
                                          data |-> None])
                ELSE /\ moonData' = r.data
                     /\ moonDataOf' = Some([id |-> att.id, latitude |-> l.latitude,
                                            longitude |-> l.longitude])
                     /\ lastDone' = Some([id |-> att.id, ok |-> TRUE, message |-> "",
                                          data |-> r.data])
                     /\ UNCHANGED error
             /\ Finally

\* The attempt that did not wait runs to its end in the same task: with the
\* cached location, with the preset, or with the rejection of a browser
\* without geolocation.
FinishSync ==
    /\ run # None
    /\ LET att == run[1]
           loc == IF att.needsGeo
                  THEN [ok |-> FALSE, value |-> None,
                        message |-> "Geolocation is not supported by this browser"]
                  ELSE IF att.kind = "city"
                  THEN LET city == FindCity(att.value)
                       IN  [ok |-> TRUE, message |-> "",
                            value |-> Some([latitude |-> city.latitude,
                                            longitude |-> city.longitude,
                                            city |-> Some(city.name)])]
                  ELSE [ok |-> TRUE, message |-> "", value |-> location]
       IN  \E eph \in SkyNow : FinishAttempt(att, loc, eph)
    /\ run' = None
    /\ UNCHANGED <<selectedCity, mounted, geoSupported, pending, started, geoCalls,
                   unmounted, overlapped, lastTrigger, calcVars, orientVars>>

\* The device (and the geocoder) answer an awaited getCurrentLocation(), and
\* the attempt runs to its end.
GeoAnswer ==
    /\ run = None /\ ~unmounted
    /\ \E att \in pending, ans \in GeoAnswers, eph \in SkyNow :
          /\ FinishAttempt(att, GetCurrentLocation(ans), eph)
          /\ pending' = pending \ {att}
    /\ UNCHANGED <<selectedCity, mounted, geoSupported, run, started, geoCalls,
                   unmounted, overlapped, lastTrigger, calcVars, orientVars>>

\* The component is unmounted: React runs the cleanup of the interval effect.
Unmount ==
    /\ mounted /\ run = None
    /\ mounted' = FALSE
    /\ unmounted' = TRUE
    /\ timers' = ClearInterval(timers)
    /\ UNCHANGED <<stateVars, geoSupported, pending, run, started, geoCalls,
                   histVars, calcVars, orientVars>>

\* An awaited getCurrentLocation() settles after the unmount: the state
\* setters of an unmounted component change nothing.
GeoAnswerUnmounted ==
    /\ unmounted
    /\ \E att \in pending : pending' = pending \ {att}
    /\ UNCHANGED <<stateVars, mounted, geoSupported, run, started, geoCalls, timers,
                   unmounted, histVars, calcVars, orientVars>>

Next ==
    \/ Mount
    \/ Tick
    \/ Refresh
    \/ TryAgain
    \/ \E value \in CityValues : HandleCityChange(value)
    \/ FinishSync
    \/ GeoAnswer
    \/ Unmount
    \/ GeoAnswerUnmounted

Spec == Init /\ [][Next]_vars

\* The mount effect runs after the first render, the task of a running attempt
\* runs to its end, and the location provider answers every call.
FairSpec ==
    /\ Spec
    /\ WF_vars(Mount) /\ WF_vars(FinishSync) /\ WF_vars(GeoAnswer)
    /\ WF_vars(GeoAnswerUnmounted)

\* ---------------------------------------------------------------- CalcSpec
\* The inputs of one call of calculateMoonData.  Two families: the getMoonTimes
\* tables and the query time vary with the position and the coordinate fixed,
\* or the coordinate and the position vary with the tables fixed.
Nows == (0 - 1)..MaxNow
AllTables == {TimesTable(has) : has \in SUBSET Days}
FewTables == {TimesTable(has) : has \in {{}, {0}, {Horizon}, Days}}
Altitudes == (0 - (RadDen \div 2))..(RadDen \div 2)
Azimuths == (0 - RadDen)..RadDen
Lats == {0 - 91, 0 - 90, 0, 90, 91}
Lngs == {0 - 181, 0 - 180, 0, 180, 181}

MkInput(lat, lng, now, alt, az, rise, set) ==
    [lat |-> lat, lng |-> lng, now |-> now,
     eph |-> [altitude |-> alt, azimuth |-> az, rise |-> rise, set |-> set]]

TimeInputs ==
    {MkInput(51, 0, now, 1, 0, r, s) : now \in Nows, r \in AllTables, s \in FewTables}
    \cup
    {MkInput(51, 0, now, 1, 0, r, s) : now \in Nows, r \in FewTables, s \in AllTables}

PositionInputs ==
    {MkInput(lat, lng, 0, alt, az, t, t) :
        lat \in Lats, lng \in Lngs, alt \in Altitudes, az \in Azimuths,
        t \in {TimesTable(Days)}}

CalcInit ==
    /\ input \in {Some(i) : i \in TimeInputs \cup PositionInputs}
    /\ result = None
    /\ moonData = None /\ location = None /\ loading = TRUE /\ error = None
    /\ isCurrentLocation = TRUE /\ selectedCity = "current"
    /\ mounted = FALSE /\ geoSupported = TRUE
    /\ pending = {} /\ run = None /\ started = 0 /\ geoCalls = 0
    /\ moonDataOf = None /\ lastDone = None /\ overlapped = FALSE
    /\ timers = 0 /\ unmounted = FALSE /\ lastTrigger = "none"
    /\ OrientationOff /\ iosPermission = FALSE

Calculate ==
    /\ result = None
    /\ result' = Some(CalculateMoonData(input[1].lat, input[1].lng,
                                        input[1].now, input[1].eph))
    /\ UNCHANGED <<input, compVars, orientVars>>

CalcNext == Calculate

CalcSpec == CalcInit /\ [][CalcNext]_vars

\* -------------------------------------------------------------- the compass
\* The dialogs and the device-orientation effect, from a state in which the
\* observation is displayed: the one the first attempt leaves when the device
\* answers (48, 2) with a city and the moon is up.
ShownAfterMount ==
    LET l == [latitude |-> 48, longitude |-> 2, city |-> Some("city")]
        eph == CHOOSE e \in SkyNow : e.altitude = 1
        r == CalculateMoonData(l.latitude, l.longitude, 0, eph)
    IN  /\ input = None /\ result = None
        /\ moonData = r.data /\ location = Some(l) /\ loading = FALSE /\ error = None
        /\ isCurrentLocation = TRUE /\ selectedCity = "current"
        /\ mounted = TRUE /\ geoSupported = TRUE
        /\ pending = {} /\ run = None /\ started = 1 /\ geoCalls = 1
        /\ moonDataOf = Some([id |-> 1, latitude |-> 48, longitude |-> 2])
        /\ lastDone = Some([id |-> 1, ok |-> TRUE, message |-> "", data |-> r.data])
        /\ overlapped = FALSE
        /\ timers = 1 /\ unmounted = FALSE /\ lastTrigger = "mount"

OrientInit == ShownAfterMount /\ OrientationOff /\ iosPermission \in BOOLEAN

\* The event types the effect listens to.
EventTypes == {"deviceorientationabsolute", "deviceorientation"}

\* window.addEventListener(type, h) for both types; a registration that
\* exists is not added twice.
AddListeners(ls, h) == ls \cup {[type |-> t, handler |-> h] : t \in EventTypes}

\* window.removeEventListener(type, h) for both types.
RemoveListeners(ls, h) == ls \ {[type |-> t, handler |-> h] : t \in EventTypes}

\* The orientation events of the model: webkitCompassHeading (undefined is
\* null here) and alpha, in whole degrees.
OrientationEvents ==
    {[webkitCompassHeading |-> w, alpha |-> a] :
        w \in {None, Some(0), Some(300)}, a \in {None, Some(0), Some(90)}}

\* Math.abs(n)
Abs(n) == IF n < 0 THEN 0 - n ELSE n

\* handleOrientation's heading: webkitCompassHeading when it is defined,
\* otherwise Math.abs(alpha - 360) when alpha is not null; then
\* (heading + 90) % 360.  null when the event carries neither.
HeadingOf(ev) ==
    LET heading == IF ev.webkitCompassHeading # None THEN ev.webkitCompassHeading
                   ELSE IF ev.alpha # None THEN Some(Abs(ev.alpha[1] - 360))
                   ELSE None
    IN  IF heading # None THEN Some(JsRem(heading[1] + 90, 360)) ELSE None

\* onClick={() => setOpenDialog(d)} of the four cards, behind no open dialog.
OpenDialog(d) ==
    /\ openDialog = None
    /\ openDialog' = Some(d)
    /\ UNCHANGED <<deviceHeading, orientationEnabled, iosPermission, toggles, handler,
                   permPending, listeners, calcVars, compVars>>

\* onOpenChange={() => setOpenDialog(null)}
CloseDialog ==
    /\ openDialog # None
    /\ openDialog' = None
    /\ UNCHANGED <<deviceHeading, orientationEnabled, iosPermission, toggles, handler,
                   permPending, listeners, calcVars, compVars>>

\* The compass button of the position dialog:
\* setOrientationEnabled(!orientationEnabled), and the effect of
\* [orientationEnabled]: the cleanup of its previous run, which removes the
\* listeners of that run's handler, then the new run.  The new run either
\* clears the heading (disabled), or makes a new handler and calls
\* requestPermission(): with DeviceOrientationEvent.requestPermission it
\* awaits that promise, without it the listeners are added at once.
ToggleCompass ==
    /\ openDialog = Some("position")
    /\ toggles < MaxToggles
    /\ toggles' = toggles + 1
    /\ orientationEnabled' = ~orientationEnabled
    /\ LET cleaned == IF handler # None THEN RemoveListeners(listeners, handler[1])
                      ELSE listeners
       IN  IF orientationEnabled
           THEN \* now disabled: setDeviceHeading(null); return
                /\ deviceHeading' = None
                /\ handler' = None
                /\ listeners' = cleaned
                /\ UNCHANGED permPending
           ELSE /\ handler' = Some(toggles')
                /\ IF iosPermission
                   THEN /\ permPending' = permPending \cup {toggles'}
                        /\ listeners' = cleaned
                   ELSE /\ listeners' = AddListeners(cleaned, toggles')
                        /\ UNCHANGED permPending
                /\ UNCHANGED deviceHeading
    /\ UNCHANGED <<openDialog, iosPermission, calcVars, compVars>>

\* The promise of DeviceOrientationEvent.requestPermission() settles for the
\* handler h: 'granted' adds its listeners, anything else adds nothing.
PermissionResult ==
    \E h \in permPending, permission \in {"granted", "denied", "error"} :
        /\ permPending' = permPending \ {h}
        /\ listeners' = IF permission = "granted" THEN AddListeners(listeners, h)
                        ELSE listeners
        /\ UNCHANGED <<openDialog, deviceHeading, orientationEnabled, iosPermission,
                       toggles, handler, calcVars, compVars>>

\* The browser dispatches an orientation event of a type that has a
\* registration: every handler registered for it runs handleOrientation.
OrientationEvent ==
    \E t \in EventTypes, ev \in OrientationEvents :
        /\ \E l \in listeners : l.type = t
        /\ deviceHeading' = IF HeadingOf(ev) # None THEN HeadingOf(ev)
                            ELSE deviceHeading
        /\ UNCHANGED <<openDialog, orientationEnabled, iosPermission, toggles, handler,
                       permPending, listeners, calcVars, compVars>>

OrientNext ==
    \/ \E d \in {"phase", "position", "rise", "set"} : OpenDialog(d)
    \/ CloseDialog
    \/ ToggleCompass
    \/ PermissionResult
    \/ OrientationEvent

OrientSpec == OrientInit /\ [][OrientNext]_vars

\* ------------------------------------------- the helpers as pure functions
\* One call of a helper per behaviour: input holds the helper's name fn, its
\* argument arg and, for getTimeRemaining, the time now of the call.
HelperCall(fn, arg, now) == [fn |-> fn, arg |-> arg, now |-> now]

\* Targets from one hour before now to MaxHours hours after it, at and
\* around whole hours and minutes; and no target.
Offsets ==
    {h * MsPerHour + m * MsPerMinute + e :
        h \in (0 - 1)..MaxHours, m \in {0, 1, 59}, e \in {0 - 1, 0, 1, 30000, 59999}}
TimeCalls ==
    {HelperCall("getTimeRemaining", Some(now + d), now) : now \in {0, 90000}, d \in Offsets}
    \cup {HelperCall("getTimeRemaining", None, 0)}
\* Every phase in [0, 1), in thousandths.
PhaseCalls == {HelperCall("getMoonPhaseDescription", Some(p), 0) : p \in 0..999}
\* Every azimuth in [0, 360), in quarters of a degree.
AzimuthCalls == {HelperCall("getAzimuthDirection", Some(q), 0) : q \in 0..1439}

HelperInit ==
    /\ input \in {Some(c) : c \in TimeCalls \cup PhaseCalls \cup AzimuthCalls}
    /\ result = None
    /\ moonData = None /\ location = None /\ loading = TRUE /\ error = None
    /\ isCurrentLocation = TRUE /\ selectedCity = "current"
    /\ mounted = FALSE /\ geoSupported = TRUE
    /\ pending = {} /\ run = None /\ started = 0 /\ geoCalls = 0
    /\ moonDataOf = None /\ lastDone = None /\ overlapped = FALSE
    /\ timers = 0 /\ unmounted = FALSE /\ lastTrigger = "none"
    /\ OrientationOff /\ iosPermission = FALSE

CallGetTimeRemaining ==
    /\ result = None /\ input[1].fn = "getTimeRemaining"
    /\ result' = Some(GetTimeRemaining(input[1].arg, input[1].now))
    /\ UNCHANGED <<input, compVars, orientVars>>

CallGetMoonPhaseDescription ==
    /\ result = None /\ input[1].fn = "getMoonPhaseDescription"
    /\ result' = Some(GetMoonPhaseDescription(input[1].arg[1]))
    /\ UNCHANGED <<input, compVars, orientVars>>

CallGetAzimuthDirection ==
    /\ result = None /\ input[1].fn = "getAzimuthDirection"
    /\ result' = Some(GetAzimuthDirection(input[1].arg[1]))
    /\ UNCHANGED <<input, compVars, orientVars>>

HelperNext ==
    \/ CallGetTimeRemaining
    \/ CallGetMoonPhaseDescription
    \/ CallGetAzimuthDirection

HelperSpec == HelperInit /\ [][HelperNext]_vars

\* The helper fn has been called and has returned.
Called(fn) == input[1].fn = fn /\ result # None

\* The call has returned an observation.
Returned == result # None /\ ~result[1].threw
Obs == result[1].data[1]
In == input[1]

\* C1: for every observation calculateMoonData returns, isVisible is true
\* exactly when the altitude in degrees is strictly greater than 0 (false at
\* an altitude of exactly 0 and at every negative altitude).
C1_VisibleIffAboveHorizon ==
    Returned =>
        /\ Obs.isVisible = (Obs.altitude > 0)
        /\ Obs.altitude = (In.eph.altitude * 180) \div RadDen
        /\ (In.eph.altitude = 0 => ~Obs.isVisible)
        /\ (In.eph.altitude < 0 => ~Obs.isVisible)

\* An observation at an altitude of exactly 0 has been returned.
C1_Witness == Returned /\ Obs.altitude = 0 /\ ~Obs.isVisible

\* The days after today whose entry of tab is strictly later than now.
LaterDays(tab, now) == {i \in 1..Horizon : tab[i] # None /\ tab[i][1] > now}
FirstOf(S) == CHOOSE i \in S : \A j \in S : i <= j
UpTo(k) == [i \in 1..k |-> i]

\* The forward search as the claims describe it: the days +1, +2, ... are
\* queried in increasing order up to the first one whose event is strictly
\* later than now (all Horizon days when there is none), and that event is
\* the one returned.
SearchedForward(tab, now, queried, value) ==
    LET later == LaterDays(tab, now)
    IN  IF later = {} THEN queried = UpTo(Horizon)
        ELSE queried = UpTo(FirstOf(later)) /\ value = tab[FirstOf(later)]

C3_Original ==
    (/\ result # None
     /\ In.lat \in (0 - 90)..90 /\ In.lng \in (0 - 180)..180
     /\ In.eph.rise[0] # Some(In.now)) =>
        /\ ~result[1].threw
        /\ (\A d \in Days : ~(In.eph.rise[d] # None /\ In.eph.rise[d][1] > In.now))
              => Obs.rise = None
        /\ Obs.rise # None => Obs.rise[1] > In.now

\* C4: for every valid coordinate and every raw south-referenced azimuth from
\* -180 to 180 degrees, the returned azimuth is the raw azimuth in degrees
\* plus 180 reduced modulo 360 and lies in [0,360); a raw azimuth of 0 with a
\* positive altitude gives azimuth 180 and isVisible = TRUE.
C4_AzimuthNorthReferenced ==
    Returned =>
        LET raw == (In.eph.azimuth * 180) \div RadDen
        IN  /\ raw \in (0 - 180)..180
            /\ Obs.azimuth = (raw + 180) % 360
            /\ Obs.azimuth >= 0 /\ Obs.azimuth < 360
            /\ (raw = 0 /\ In.eph.altitude > 0
                  => Obs.azimuth = 180 /\ Obs.isVisible)

\* A negative raw azimuth has been converted.
C4_Witness == Returned /\ In.eph.azimuth < 0 /\ Obs.azimuth < 180

\* C5: calculateMoonData fails with the invalid-coordinate error, before any
\* ephemeris call, exactly when the latitude is outside [-90,90] or the
\* longitude is outside [-180,180] (bounds inclusive); every accepted
\* coordinate produces an observation.
C5_CoordinateValidation ==
    result # None =>
        /\ result[1].threw =
              (In.lat \notin (0 - 90)..90 \/ In.lng \notin (0 - 180)..180)
        /\ (result[1].threw => result[1].calls = 0 /\ result[1].data = None)
        /\ (~result[1].threw => result[1].calls >= 3 /\ result[1].data # None)
        /\ (In.lat = 91 /\ In.lng = 0 => result[1].threw)
        /\ (In.lat = 0 /\ In.lng = 0 - 181 => result[1].threw)
        /\ (In.lat = 90 /\ In.lng = 180 => ~result[1].threw)
        /\ (In.lat = 0 - 90 /\ In.lng = 0 - 180 => ~result[1].threw)

\* The call for (0, -181) has failed without an ephemeris call.
C5_Witness ==
    result # None /\ In.lat = 0 /\ In.lng = 0 - 181 /\ result[1].threw
    /\ result[1].calls = 0

\* ------------------------------------------------------ the component's claims
\* The step completes an attempt (lastDone names the attempt by its id).
Completes == lastDone' # lastDone
\* The step starts an attempt.
Starts == started' # started
\* What the display shows when the outcome of the attempt done is displayed.
OutcomeOf(done) ==
    IF done.ok THEN <<"Ready", done.data[1]>> ELSE <<"Failed", done.message>>

\* C6 as stated: every attempt ends either in success, with the observation
\* replaced by the new one and no error set, or in failure, with the error set
\* and the earlier observation no longer held; no state holds both an error
\* and an observation.
C6_Original ==
    /\ [][Completes =>
            IF lastDone'[1].ok
            THEN moonData' = lastDone'[1].data /\ error' = None
            ELSE error' = Some(lastDone'[1].message) /\ moonData' = None]_vars
    /\ [](~(error # None /\ moonData # None))

\* C7 as stated: when attempts have overlapped and all of them have
\* completed, the display shows the outcome of the attempt that completed
\* last: its observation if it succeeded, its error if it failed.
C7_Original ==
    overlapped /\ mounted /\ InFlight = {} /\ lastDone # None
        => Display = OutcomeOf(lastDone[1])

\* C8 as stated: every timer tick computes with the cached coordinate and
\* never calls the location provider, in every reachable state.
C8_Original ==
    [][Tick => location # None /\ geoCalls' = geoCalls]_vars

\* C8, amended: a timer tick that fires while a coordinate is cached computes
\* with that coordinate and does not call the location provider; a tick that
\* fires while none is cached (before the first successful resolution, for
\* instance after a failed first attempt) calls the location provider.
C8_TickUsesCachedCoordinate ==
    [][/\ Tick /\ location # None =>
            /\ geoCalls' = geoCalls
            /\ pending' = pending
            /\ run' # None /\ run'[1].kind = "update"
       /\ Tick /\ location = None => geoCalls' = geoCalls + 1
       /\ (run # None /\ run[1].kind = "update" /\ location # None /\ Completes) =>
            /\ lastDone'[1].ok
            /\ location' = location
            /\ moonDataOf'[1].id = run[1].id
            /\ moonDataOf'[1].latitude = location[1].latitude
            /\ moonDataOf'[1].longitude = location[1].longitude]_vars

\* After a failed attempt, with a coordinate cached, an attempt started by
\* updateMoonData is running without a call of the location provider.
C8_Witness ==
    /\ lastTrigger = "tick"
    /\ run # None /\ run[1].kind = "update" /\ ~run[1].needsGeo
    /\ location # None
    /\ lastDone # None /\ ~lastDone[1].ok

\* C9: mounting starts exactly one computation; each handleCityChange(value)
\* with an entry of the city list starts exactly one computation, for that
\* entry; and when that computation succeeds, the location and the
\* observation are those of the entry: the device-reported coordinate for
\* 'current', the preset's coordinate otherwise.
C9_OneImmediateComputation ==
    [][/\ (mounted' /\ ~mounted) =>
            started = 0 /\ started' = 1 /\ Cardinality(InFlight') = 1
       /\ \A value \in CityValues : HandleCityChange(value) =>
            /\ started' = started + 1
            /\ \E att \in InFlight' :
                  /\ att.id = started' /\ att.kind = "city" /\ att.value = value
                  /\ InFlight' = InFlight \cup {att}
       /\ \A att \in InFlight \ InFlight' :
            (Completes /\ att.kind = "city" /\ lastDone'[1].ok) =>
                /\ lastDone'[1].id = att.id
                /\ moonData' = lastDone'[1].data
                /\ moonDataOf'[1].id = att.id
                /\ moonDataOf'[1].latitude = location'[1].latitude
                /\ moonDataOf'[1].longitude = location'[1].longitude
                /\ isCurrentLocation' = (att.value = "current")
                /\ IF att.value = "current"
                   THEN \E ans \in GeoAnswers :
                           /\ ans.kind = "position"
                           /\ location'[1].latitude = ans.latitude
                           /\ location'[1].longitude = ans.longitude
                   ELSE \E c \in MAJOR_CITIES :
                           /\ c.value = att.value
                           /\ location'[1].latitude = c.latitude
                           /\ location'[1].longitude = c.longitude]_vars

\* The computation started by handleCityChange('tokyo') has succeeded.
C9_Witness ==
    /\ selectedCity = "tokyo" /\ InFlight = {}
    /\ lastDone # None /\ lastDone[1].ok
    /\ moonDataOf # None /\ moonDataOf[1].id = lastDone[1].id
    /\ moonDataOf[1].latitude = 35 /\ moonDataOf[1].longitude = 139
    /\ ~isCurrentLocation

\* C10: every trigger puts the component into Loading with the error cleared;
\* every attempt that completes leaves it in Ready or Failed; with no attempt
\* in flight it is not in Loading; and, the location provider answering every
\* call, every attempt in flight completes and Loading is left.
C10_LoadingThenReadyOrFailed ==
    /\ [][Starts => loading' /\ error' = None /\ Display' = <<"Loading">>]_vars
    /\ [][Completes =>
            /\ ~loading'
            /\ Display'[1] \in {"Ready", "Failed"}
            /\ (Display'[1] = "Ready" => moonData' # None /\ error' = None)
            /\ (Display'[1] = "Failed" => error' # None)]_vars
    /\ [](mounted /\ InFlight = {} => ~loading)
    /\ \A id \in 1..(MaxAttempts + 1) :
          ((\E att \in InFlight : att.id = id)
              ~> (unmounted \/ (~loading /\ ~(\E att \in InFlight : att.id = id))))
    /\ (loading ~> (unmounted \/ ~loading))

\* After a second trigger, every attempt has completed and the component is
\* in Failed.
C10_Witness ==
    mounted /\ InFlight = {} /\ started >= 2 /\ Display[1] = "Failed"

\* The error card of an attempt that failed with the invalid-coordinate error.
InvalidCoordinatesShown == mounted /\ Display = <<"Failed", "Invalid coordinates">>

C12_AtMostOneTimer ==
    /\ [](timers <= 1)
    /\ [](mounted => timers = 1)
    /\ [](unmounted => timers = 0)
    /\ [][unmounted => ~Starts]_vars

C12_Witness ==
    /\ unmounted /\ timers = 0
    /\ location # None /\ location[1].latitude = 35
    /\ selectedCity = "tokyo"

\* The table tab with the event of day d added or removed.
Toggle(tab, d) == [tab EXCEPT ![d] = IF @ = None THEN Some(EventAt(d)) ELSE None]

\* The tables the rise (or set) answers are replaced with: every change of
\* one day's timestamp, and the empty, today-only, last-day-only, full tables.
Changed(tab) == {Toggle(tab, d) : d \in Days} \cup FewTables

\* calculateMoonData on the inputs of this call with other SunCalc answers.
Recalc(eph) == CalculateMoonData(In.lat, In.lng, In.now, eph)

\* C13: the returned set is what the rise procedure returns on the set
\* timestamps; for the same query time it does not change when rise
\* timestamps change, and the returned rise does not change when set
\* timestamps change.
C13_RiseAndSetIndependent ==
    Returned =>
        /\ Obs.set = Recalc([In.eph EXCEPT !.rise = In.eph.set]).data[1].rise
        /\ result[1].setQueried
              = Recalc([In.eph EXCEPT !.rise = In.eph.set]).riseQueried
        /\ \A r2 \in Changed(In.eph.rise) :
              LET o == Recalc([In.eph EXCEPT !.rise = r2])
              IN  o.data[1].set = Obs.set /\ o.setQueried = result[1].setQueried
        /\ \A s2 \in Changed(In.eph.set) :
              LET o == Recalc([In.eph EXCEPT !.set = s2])
              IN  o.data[1].rise = Obs.rise /\ o.riseQueried = result[1].riseQueried

\* Rise and set come from different days: today's set is kept, the rise is
\* found by the search on a later day.
C13_Witness ==
    /\ Returned
    /\ result[1].setQueried = <<>> /\ Obs.set = Some(EventAt(0))
    /\ Len(result[1].riseQueried) > 1 /\ Obs.rise # None /\ Obs.rise[1] > In.now

\* A position with valid coordinates whose reverse-geocoding fetch failed.
GeocodeFailed(ans) ==
    /\ ans.kind = "position" /\ ~InvalidPosition(ans.latitude, ans.longitude)
    /\ ~ans.geocoded

\* C14 (as stated): with a valid position and a failed reverse geocoding,
\* getCurrentLocation() resolves with the reported coordinate and no city,
\* and the attempt that awaited it ends with the observation displayed, not
\* the error card.
C14_Original ==
    /\ [](\A ans \in GeoAnswers : GeocodeFailed(ans) =>
            GetCurrentLocation(ans)
              = [ok |-> TRUE, message |-> "",
                 value |-> Some([latitude |-> ans.latitude,
                                 longitude |-> ans.longitude, city |-> None])])
    /\ [][(Completes /\ pending' # pending /\ lastDone'[1].ok
             /\ location'[1].city = None)
            => Display'[1] = "Ready"]_vars

\* The coordinate the displayed observation was computed for is the one of
\* the entry value: a valid device-reported coordinate for 'current', the
\* preset's coordinate otherwise.
ComputedFor(value) ==
    IF value = "current"
    THEN \E ans \in GeoAnswers :
            /\ ans.kind = "position" /\ ~InvalidPosition(ans.latitude, ans.longitude)
            /\ moonDataOf[1].latitude = ans.latitude
            /\ moonDataOf[1].longitude = ans.longitude
    ELSE /\ moonDataOf[1].latitude = FindCity(value).latitude
         /\ moonDataOf[1].longitude = FindCity(value).longitude

\* C18 (as stated, here for the runs in which no two attempts overlapped):
\* a displayed observation was computed for the coordinate of selectedCity,
\* and isCurrentLocation is true exactly when selectedCity is 'current'.
C18_Original ==
    (mounted /\ ~overlapped /\ Display[1] = "Ready") =>
        /\ ComputedFor(selectedCity)
        /\ isCurrentLocation = (selectedCity = "current")

\* C19 (as stated): loading is true whenever an attempt is in flight.
C19_Original == (mounted /\ InFlight # {}) => loading

\* What getTimeRemaining returned, and the distance of its target.
Remaining == result[1]
DiffMs == input[1].arg[1] - input[1].now

\* hours and minutes are the floors the source computes: whole hours of
\* diffMs, and whole minutes of what is left, within 0..59.
FloorsOf(r, diffMs) ==
    /\ r.hours >= 0 /\ r.minutes \in 0..59
    /\ r.hours * MsPerHour + r.minutes * MsPerMinute <= diffMs
    /\ diffMs < r.hours * MsPerHour + (r.minutes + 1) * MsPerMinute

\* C15 (as stated): getTimeRemaining returns null for no target and for
\* every target at or before now, and the floors of hours and minutes for a
\* target strictly after now.
C15_Original ==
    Called("getTimeRemaining") =>
        IF input[1].arg = None \/ DiffMs <= 0
        THEN Remaining = None
        ELSE Remaining # None /\ FloorsOf(Remaining[1], DiffMs)

\* C15 (amended): null for no target and for every target strictly before
\* now; for a target at or after now the floors of hours and minutes, so
\* hours 0, minutes 0 at exactly now and 30 seconds after it.
C15_TimeRemaining ==
    Called("getTimeRemaining") =>
        IF input[1].arg = None \/ DiffMs < 0
        THEN Remaining = None
        ELSE /\ Remaining # None /\ FloorsOf(Remaining[1], DiffMs)
             /\ DiffMs \in {0, 30000} => Remaining[1] = [hours |-> 0, minutes |-> 0]

C15_Witness ==
    /\ Called("getTimeRemaining") /\ input[1].arg = Some(input[1].now)
    /\ Remaining = Some([hours |-> 0, minutes |-> 0])

\* The bands of the phase labels, each with the value it begins at (in
\* thousandths), and the label of the band that p lies in when every band
\* contains the value it begins at.
Bands ==
    <<<<0, "New Moon">>, <<30, "Waxing Crescent">>, <<220, "First Quarter">>,
      <<280, "Waxing Gibbous">>, <<470, "Full Moon">>, <<530, "Waning Gibbous">>,
      <<720, "Last Quarter">>, <<780, "Waning Crescent">>, <<970, "New Moon">>>>
BandOf(p) ==
    LET i == CHOOSE k \in 1..Len(Bands) :
                 /\ Bands[k][1] <= p
                 /\ \A j \in 1..Len(Bands) : Bands[j][1] <= p => j <= k
    IN  Bands[i][2]
Labels == {Bands[k][2] : k \in 1..Len(Bands)}

\* C16 (as stated): every phase in [0, 1) gets the label of the band that
\* begins at the greatest boundary not above it; 0.97 is New Moon.
C16_Original ==
    Called("getMoonPhaseDescription") => result[1] = BandOf(input[1].arg[1])

\* C16 (amended): every phase in [0, 1) gets one of the eight labels; every
\* boundary belongs to the band that begins at it except 0.97, which is
\* Waning Crescent: New Moon is phase < 0.03 or phase > 0.97.
C16_PhaseLabels ==
    Called("getMoonPhaseDescription") =>
        /\ result[1] \in Labels /\ Cardinality(Labels) = 8
        /\ result[1] = IF input[1].arg[1] = 970 THEN "Waning Crescent"
                       ELSE BandOf(input[1].arg[1])

C16_Witness ==
    /\ Called("getMoonPhaseDescription") /\ input[1].arg[1] = 970
    /\ result[1] = "Waning Crescent"

\* C17: for every azimuth in [0, 360) getAzimuthDirection returns one of
\* the 16 compass points: point k for an azimuth within 11.25 degrees of
\* k * 22.5 (the lower end included), and N from 348.75 degrees on.
C17_AzimuthDirection ==
    Called("getAzimuthDirection") =>
        LET q == input[1].arg[1]
        IN  /\ \E k \in 1..Len(Directions) : result[1] = Directions[k]
            /\ \A k \in 0..15 :
                  (90 * k - 45 <= q /\ q < 90 * k + 45) => result[1] = Directions[k + 1]
            /\ q >= 1395 => result[1] = "N"

C17_Witness ==
    /\ Called("getAzimuthDirection") /\ input[1].arg[1] = 1395
    /\ result[1] = "N"

\* The registrations for the event type t.
RegisteredFor(t) == {l \in listeners : l.type = t}

\* C20 (as stated): while the compass is off no orientation listener is
\* registered and deviceHeading is null; while it is on each event type has
\* at most one registration.
C20_Original ==
    /\ ~orientationEnabled => (listeners = {} /\ deviceHeading = None)
    /\ orientationEnabled => \A t \in EventTypes : Cardinality(RegisteredFor(t)) <= 1

\* ---------------------------------------------- what is drawn of the horizon
\* The main card: The moon is {moonData.isVisible ? 'above' : 'below'} the
\* horizon (and YES / NO, with the same test).
MainCardAbove(data) == data.isVisible

\* The position dialog's moon dot: altitude >= 0 draws the bright dot with
\* its glow, otherwise the dimmed dot ("Moon below horizon").
DialogDrawsAbove(data) == data.altitude >= 0

\* The position dialog's text:
\* moonData.altitude >= 0 ? ' above horizon' : ' below horizon'
DialogTextAbove(data) == data.altitude >= 0

\* moonData.altitude < 0 && "Moon is currently below the horizon"
DialogBelowNotice(data) == data.altitude < 0

\* C21 (as stated): for every observation the main card says 'above'
\* exactly when the position dialog writes 'above horizon' and draws the
\* moon as above the horizon, and the dialog's below-the-horizon notice is
\* shown exactly when isVisible is false.
C21_Original ==
    Returned =>
        /\ MainCardAbove(Obs) <=> (DialogTextAbove(Obs) /\ DialogDrawsAbove(Obs))
        /\ DialogBelowNotice(Obs) <=> ~Obs.isVisible
====
